---- MODULE Spec2Model ----
(***************************************************************************)
(* Hangman game session controller of src/hangman.py: the session's game   *)
(* record, the three handlers that change it (new_game, check_guess and    *)
(* the hint button of show_hint_section) and the calls they make to the    *)
(* AI content provider.                                                    *)
(*                                                                         *)
(* Letters are numbered 1..NumLetters; a word and the list of guessed      *)
(* letters are sequences of letters, as Python's str and list are.         *)
(***************************************************************************)
EXTENDS Integers, Sequences, FiniteSets, TLC

VARIABLES game, last, ui, asked, call, scores, lb_cache, run

vars == <<game, last, ui, asked, call, scores, lb_cache, run>>

(* ------------------------------- bounds -------------------------------- *)

\* Size of the alphabet the player picks letters from.
NumLetters == 6

\* Longest secret word the word source hands out.
MaxWordLen == 2

(* -------------------------- program constants -------------------------- *)

\* 'attempts': 6 of a fresh game record.
InitialAttempts == 6

\* Price of a hint, and the threshold of "attempts > 2".
HintCost == 2

\* game['attempts'] * 10 of the score.
ScorePerAttempt == 10

\* (5 if not game['hint_used'] else 0) of the score.
NoHintBonus == 5

\* max_retries=3 of get_ai_content.
max_retries == 3

\* time.sleep(2) of get_ai_content.
Backoff == 2

(* ------------------------------- values -------------------------------- *)

Letters == 1..NumLetters

\* The words get_ai_word may return: non-empty, over two letters, with a
\* repeated letter from length 3 on: <<2>>, <<2, 1>>, <<2, 1, 2>>, ...
Words == {[i \in 1..n |-> (i % 2) + 1] : n \in 1..MaxWordLen}

\* Python's `x in s` for a single character x and a str or list s.
In(x, s) == \E i \in 1..Len(s) : s[i] = x

\* The empty string, as the word of the initial record.
EmptyWord == <<>>

NoPrompt == [ask |-> "none", word |-> EmptyWord]

\* The value '' of fun_fact in the initial record.
EmptyText == [kind |-> "empty", about |-> NoPrompt]

\* "Temporary hint unavailable. Try guessing letters!"
Fallback == [kind |-> "fallback", about |-> NoPrompt]

\* The completion the AI service returns for a prompt.
Response(prompt) == [kind |-> "answer", about |-> prompt]

\* f"Give a subtle hint about {word} without revealing it. Max 10 words."
HintPrompt(word) == [ask |-> "hint", word |-> word]

\* f"Tell an interesting fact about {word} in 15 words or less."
FactPrompt(word) == [ask |-> "fact", word |-> word]

\* get_ai_content(prompt) when the first `failures` attempts raise: the
\* first attempt that succeeds returns its text, max_retries failures
\* return the fallback.
get_ai_content(prompt, failures) ==
    IF failures < max_retries THEN Response(prompt) ELSE Fallback

\* get_ai_hint() / get_fun_fact(): both read the word of the game record
\* that is in the session state at the time of the call.
\* except Exception as e: st.error(f"AI service error: {str(e)}"): the
\* messages a call shows when `failures` of its requests fail.
AiErrors(failures) == IF failures > 0 THEN {"ai"} ELSE {}

\* get_ai_word: a failure of the word source is reported to the player and
\* a word is returned all the same.
WordErrors(word_fails) == IF word_fails THEN {"word"} ELSE {}

get_ai_hint(g, failures) == get_ai_content(HintPrompt(g.word), failures)

get_fun_fact(g, failures) == get_ai_content(FactPrompt(g.word), failures)

(* ------------------------------ the state ------------------------------ *)

\* game  : the record under st.session_state['game']
\* last  : the handler that ran last, and for check_guess whether the letter
\*         it was given was absent from guessed_letters when it was called;
\*         for a score submission the name typed, whether a leaderboard
\*         was cached when it was clicked and whether a document was added
\* ui    : what that handler showed (st.info with the hint, st.warning)
\* asked : the prompts that handler passed to get_ai_content
\* call  : one call of get_ai_content, followed attempt by attempt
\* scores   : the documents of the "scores" collection, oldest first
\* lb_cache : what st.cache_data holds for get_leaderboard()
\* run   : how the last handler ended: the external calls that failed in
\*         it, the st.error messages it showed, and whether an exception
\*         left the handler

\* The record the script stores under st.session_state['game'].
InitialGame ==
    [word            |-> EmptyWord,
     guessed_letters |-> <<>>,
     attempts        |-> InitialAttempts,
     score           |-> 0,
     game_over       |-> FALSE,
     hint_used       |-> FALSE,
     fun_fact        |-> EmptyText]

NoUi == [kind |-> "none", text |-> EmptyText]

\* No call of get_ai_content is being followed.
IdleCall == [pc |-> "idle"]

\* Nothing cached for get_leaderboard().
NoCache == [filled |-> FALSE]

\* A handler in which no external call failed.
CleanRun == [faults |-> {}, errors |-> {}, raised |-> FALSE]

Init ==
    /\ game = InitialGame
    /\ last = [op |-> "init", fresh |-> FALSE]
    /\ ui = NoUi
    /\ asked = <<>>
    /\ call = IdleCall
    /\ scores = <<>>
    /\ lb_cache = NoCache
    /\ run = CleanRun

(* ------------------------------ new_game ------------------------------- *)

\* new_game: the dict literal is evaluated first, get_fun_fact() included,
\* while st.session_state.game is still the record `g` of before the call;
\* only then is the new record stored.
new_game_keeping_hint(g, word, failures) ==
    [word            |-> word,
     guessed_letters |-> <<>>,
     attempts        |-> InitialAttempts,
     score           |-> 0,
     game_over       |-> FALSE,
     hint_used       |-> g.hint_used,
     fun_fact        |-> get_ai_content(FactPrompt(g.word), failures)]

new_game(g, word, failures) ==
    [word            |-> word,
     guessed_letters |-> <<>>,
     attempts        |-> InitialAttempts,
     score           |-> 0,
     game_over       |-> FALSE,
     hint_used       |-> FALSE,
     fun_fact        |-> get_fun_fact(g, failures)]

\* new_game as a handler; WordFaults tells whether the word source may fail.
NewGameWith(WordFaults) ==
    \E word \in Words, failures \in 0..max_retries, word_fails \in WordFaults :
        /\ game' = new_game(game, word, failures)
        /\ last' = [op |-> "new_game", fresh |-> FALSE]
        /\ ui' = NoUi
        /\ asked' = <<FactPrompt(game.word)>>
        /\ run' = [faults |-> (IF failures > 0 THEN {"ai"} ELSE {})
                                \cup (IF word_fails THEN {"word"} ELSE {}),
                   errors |-> AiErrors(failures) \cup WordErrors(word_fails),
                   raised |-> FALSE]
        /\ UNCHANGED <<call, scores, lb_cache>>

\* The word source answers.
NewGame == NewGameWith({FALSE})

(* ----------------------------- check_guess ----------------------------- *)

\* if letter not in game['guessed_letters']
IsNewLetterAlways(g, letter) == TRUE

IsNewLetter(g, letter) == ~In(letter, g.guessed_letters)

\* if letter not in game['word']: game['attempts'] -= 1
AfterPenaltySignSlip(g, letter) ==
    IF ~In(letter, g.word) THEN g.attempts - 1 ELSE g.attempts + 1

AfterPenalty(g, letter) ==
    IF ~In(letter, g.word) THEN g.attempts - 1 ELSE g.attempts

\* all(c in game['guessed_letters'] for c in game['word'])
AllGuessed(g) == \A i \in 1..Len(g.word) : In(g.word[i], g.guessed_letters)

\* game['attempts'] <= 0 or all(...)
RoundEndedStrict(g) == g.attempts < 0 \/ AllGuessed(g)

RoundEnded(g) == g.attempts <= 0 \/ AllGuessed(g)

\* game['attempts'] * 10 + (5 if not game['hint_used'] else 0)
WinScore(g) ==
    g.attempts * ScorePerAttempt + (IF ~g.hint_used THEN NoHintBonus ELSE 0)

\* The first half of check_guess: record the letter, charge a wrong one.
Recorded(g, letter) ==
    IF IsNewLetter(g, letter)
    THEN [g EXCEPT !.guessed_letters = Append(@, letter),
                   !.attempts = AfterPenalty(g, letter)]
    ELSE g

\* The second half of check_guess: the win/lose conditions.
Evaluated(g) ==
    IF RoundEnded(g)
    THEN [g EXCEPT !.game_over = TRUE,
                   !.score = IF g.attempts > 0 THEN WinScore(g) ELSE @]
    ELSE g

\* check_guess tests neither game_over nor whether a round was started: it
\* acts on whatever record the session holds.
check_guess(g, letter) == Evaluated(Recorded(g, letter))

\* check_guess as a handler, the player picking the letter among Choice.
GuessAmong(Choice) ==
    \E letter \in Choice :
        /\ game' = check_guess(game, letter)
        /\ last' = [op |-> "check_guess",
                    fresh |-> ~In(letter, game.guessed_letters)]
        /\ ui' = NoUi
        /\ asked' = <<>>
        /\ run' = CleanRun
        /\ UNCHANGED <<call, scores, lb_cache>>

CheckGuess == GuessAmong(Letters)

(* -------------------------- show_hint_section -------------------------- *)

\* if not game_over and not hint_used: the button is rendered
HintOfferedIgnoringUse(g) == ~g.game_over

HintOffered(g) == ~g.game_over /\ ~g.hint_used

\* if st.session_state.game['attempts'] > 2
CanAffordHintOffByOne(g) == g.attempts >= HintCost

CanAffordHintWhenAny(g) == g.attempts > 0

CanAffordHint(g) == g.attempts > HintCost

\* The game record after a click on the hint button.
purchase_hint(g) ==
    IF HintOffered(g) /\ CanAffordHint(g)
    THEN [g EXCEPT !.attempts = @ - HintCost, !.hint_used = TRUE]
    ELSE g

\* A request for a hint: with the button rendered, the click buys the hint
\* (st.info with the provider's text) or is refused (st.warning); with the
\* button not rendered nothing happens.
HintButton ==
    /\ game' = purchase_hint(game)
    /\ last' = [op |-> "hint", fresh |-> FALSE]
    /\ IF HintOffered(game) /\ CanAffordHint(game)
       THEN \E failures \in 0..max_retries :
                /\ ui' = [kind |-> "info",
                          text |-> get_ai_hint(game', failures)]
                /\ asked' = <<HintPrompt(game'.word)>>
                /\ run' = [faults |-> IF failures > 0 THEN {"ai"} ELSE {},
                           errors |-> AiErrors(failures),
                           raised |-> FALSE]
       ELSE /\ ui' = [kind |-> IF HintOffered(game) THEN "warning" ELSE "none",
                      text |-> EmptyText]
            /\ asked' = <<>>
            /\ run' = CleanRun
    /\ UNCHANGED <<call, scores, lb_cache>>

(* --------------------------- show_game_over ---------------------------- *)

\* if game['attempts'] > 0: the round is shown as won (balloons, the score,
\* the name input and the Submit Score button); else as lost.
ShownWon(g) == g.attempts > 0

(* --------------------- get_ai_content, step by step -------------------- *)

\* Number of requests for which the service's behaviour is chosen.
MaxOutcomes == 4

\* The prompts the handlers build.
Prompts ==
    {HintPrompt(w) : w \in Words \cup {EmptyWord}}
        \cup {FactPrompt(w) : w \in Words \cup {EmptyWord}}

\* for _ in range(max_retries): another iteration is entered
MayRequestOnceMore(c) == c.requests <= max_retries

MayRequest(c) == c.requests < max_retries

\* try: response = ...create(...); return response...content.strip()
\* except Exception: st.error(...) -- and then time.sleep(2)
\* outcomes[k] tells whether the k-th request to the service succeeds.
AfterRequest(c) ==
    LET k == c.requests + 1
    IN  IF c.outcomes[k]
        THEN [c EXCEPT !.requests = k, !.pc = "done",
                       !.result = Response(c.prompt)]
        ELSE [c EXCEPT !.requests = k, !.errors = @ + 1, !.pc = "sleep"]

\* A call is made: get_ai_content(prompt) enters its loop.
CallStarted(prompt, outcomes) ==
    [pc |-> "loop", prompt |-> prompt, outcomes |-> outcomes, requests |-> 0,
     errors |-> 0, slept |-> 0, result |-> EmptyText]

InitRetry ==
    /\ game = InitialGame
    /\ last = [op |-> "init", fresh |-> FALSE]
    /\ ui = NoUi
    /\ asked = <<>>
    /\ scores = <<>>
    /\ lb_cache = NoCache
    /\ run = CleanRun
    /\ call \in {CallStarted(p, o) :
                    p \in Prompts, o \in [1..MaxOutcomes -> BOOLEAN]}

\* One iteration of the loop up to the return or the except clause.
Request ==
    /\ call.pc = "loop"
    /\ MayRequest(call)
    /\ call' = AfterRequest(call)
    /\ UNCHANGED <<game, last, ui, asked, scores, lb_cache, run>>

\* time.sleep(2), the last statement of the except clause.
Sleep ==
    /\ call.pc = "sleep"
    /\ call' = [call EXCEPT !.slept = @ + Backoff, !.pc = "loop"]
    /\ UNCHANGED <<game, last, ui, asked, scores, lb_cache, run>>

\* The loop is exhausted: return the fallback string.
ReturnFallback ==
    /\ call.pc = "loop"
    /\ ~MayRequest(call)
    /\ call' = [call EXCEPT !.pc = "done", !.result = Fallback]
    /\ UNCHANGED <<game, last, ui, asked, scores, lb_cache, run>>

NextRetry == Request \/ Sleep \/ ReturnFallback

\* The call runs to its return: nothing else runs in the session while a
\* handler is in get_ai_content.
SpecRetry == InitRetry /\ [][NextRetry]_vars /\ WF_vars(NextRetry)

(* ------------------------- the leaderboard ----------------------------- *)

\* Number of documents the "scores" collection is followed up to.
MaxScores == 1

\* Number of characters beyond 15 a submitted name is tried with.
MaxNameExcess == 1

\* name[:15] of save_score (and max_chars=15 of the name input).
NameLimit == 15

\* limit=10 of get_leaderboard.
LeaderboardLimit == 10

\* The name of n characters: its i-th character is i.
NameOf(n) == [i \in 1..n |-> i]

\* The names save_score may be called with: of every length up to some
\* characters beyond 15.
PlayerNames == {NameOf(n) : n \in 0..(NameLimit + MaxNameExcess)}

\* The names the name input of show_game_over hands over, max_chars=15: the
\* empty one and one of full length.
TypedNames == {NameOf(0), NameOf(NameLimit)}

\* The scores check_guess computes for a win.
WinScores ==
    {a * ScorePerAttempt + b : a \in 1..InitialAttempts, b \in {0, NoHintBonus}}

\* The letters that occur in the words.
WordLetters == UNION {{w[i] : i \in 1..Len(w)} : w \in Words}

Min(a, b) == IF a <= b THEN a ELSE b

\* What one call of get_leaderboard() may return for the documents `docs`
\* when the query succeeds: order_by("score", DESCENDING).limit(limit), the
\* order among equal scores being the store's choice.
Rankings(docs) ==
    LET n == Len(docs)
        Orders == {p \in [1..n -> 1..n] :
                     /\ \A i, j \in 1..n : i # j => p[i] # p[j]
                     /\ \A i \in 1..(n - 1) :
                            docs[p[i]].score >= docs[p[i + 1]].score}
    IN  {[i \in 1..Min(n, LeaderboardLimit) |-> docs[p[i]]] : p \in Orders}

\* name[:15]
TruncatedOneLate(name) == SubSeq(name, 1, Min(Len(name), NameLimit + 1))

Truncated(name) == SubSeq(name, 1, Min(Len(name), NameLimit))

save_score_keeping_cache(docs, cache, name, score, fails) ==
    IF fails
    THEN [scores |-> docs, cache |-> cache,
          errors |-> {"save"}, raised |-> FALSE]
    ELSE [scores |-> Append(docs, [name  |-> Truncated(name),
                                   score |-> score]),
          cache  |-> cache,
          errors |-> {}, raised |-> FALSE]

\* save_score(name, score) on the collection `docs` with the cache entry
\* `cache`: the document is written and every cache cleared, or the write
\* raises, which is caught and reported.
save_score(docs, cache, name, score, fails) ==
    IF fails
    THEN [scores |-> docs, cache |-> cache,
          errors |-> {"save"}, raised |-> FALSE]
    ELSE [scores |-> Append(docs, [name  |-> Truncated(name),
                                   score |-> score]),
          cache  |-> NoCache,
          errors |-> {}, raised |-> FALSE]

get_leaderboard_uncaught(cache, ranking, fails) ==
    IF cache.filled
    THEN [rows |-> cache.rows, ok |-> cache.ok, cache |-> cache,
          errors |-> {}, raised |-> FALSE]
    ELSE IF fails
    THEN [rows |-> <<>>, ok |-> FALSE, cache |-> cache,
          errors |-> {}, raised |-> TRUE]
    ELSE [rows |-> ranking, ok |-> TRUE,
          cache |-> [filled |-> TRUE, ok |-> TRUE, rows |-> ranking],
          errors |-> {}, raised |-> FALSE]

\* get_leaderboard() under st.cache_data: a cached return value is served
\* without a query; else the query returns `ranking`, or raises, which is
\* caught, reported and answered with []. Either return value is cached.
get_leaderboard(cache, ranking, fails) ==
    IF cache.filled
    THEN [rows |-> cache.rows, ok |-> cache.ok, cache |-> cache,
          errors |-> {}, raised |-> FALSE]
    ELSE IF fails
    THEN [rows |-> <<>>, ok |-> FALSE,
          cache |-> [filled |-> TRUE, ok |-> FALSE, rows |-> <<>>],
          errors |-> {"leaderboard"}, raised |-> FALSE]
    ELSE [rows |-> ranking, ok |-> TRUE,
          cache |-> [filled |-> TRUE, ok |-> TRUE, rows |-> ranking],
          errors |-> {}, raised |-> FALSE]

\* The leaderboard as a handler shows it.
Board(read) == [kind |-> "board", text |-> EmptyText,
                rows |-> read.rows, ok |-> read.ok]

\* What save_score returns when it is not called.
NotSaved(docs, cache) ==
    [scores |-> docs, cache |-> cache, errors |-> {}, raised |-> FALSE]

\* A click on Submit Score with `name` in the name input. show_game_over
\* runs only if game_over; its first column offers the submission only if
\* attempts > 0 and saves only a non-empty name; its second column then
\* reads the leaderboard.
SubmitScore ==
    \E name \in TypedNames, save_fails \in BOOLEAN, read_fails \in BOOLEAN :
        LET offered == game.game_over /\ ShownWon(game) /\ name # <<>>
            saved == IF offered
                     THEN save_score(scores, lb_cache, name, game.score,
                                     save_fails)
                     ELSE NotSaved(scores, lb_cache)
        IN  /\ offered => Len(scores) < MaxScores
            /\ last' = [op |-> "submit", fresh |-> FALSE, name |-> name,
                        cached |-> lb_cache.filled,
                        appended |-> Len(saved.scores) > Len(scores)]
            /\ scores' = saved.scores
            /\ asked' = <<>>
            /\ IF game.game_over
               THEN \E ranking \in Rankings(saved.scores) :
                        LET read == get_leaderboard(saved.cache, ranking,
                                                    read_fails)
                        IN  /\ lb_cache' = read.cache
                            /\ ui' = Board(read)
                            /\ run' =
                                 [faults |->
                                      (IF offered /\ save_fails
                                       THEN {"save"} ELSE {})
                                      \cup (IF ~saved.cache.filled /\ read_fails
                                            THEN {"leaderboard"} ELSE {}),
                                  errors |-> saved.errors \cup read.errors,
                                  raised |-> saved.raised \/ read.raised]
               ELSE /\ lb_cache' = saved.cache
                    /\ ui' = NoUi
                    /\ run' = CleanRun
            /\ UNCHANGED <<game, call>>

\* A run of the script with the Global Leaderboard expander open.
ViewLeaderboard ==
    \E read_fails \in BOOLEAN, ranking \in Rankings(scores) :
        LET read == get_leaderboard(lb_cache, ranking, read_fails)
        IN  /\ last' = [op |-> "view", fresh |-> FALSE]
            /\ lb_cache' = read.cache
            /\ ui' = Board(read)
            /\ asked' = <<>>
            /\ run' = [faults |-> IF ~lb_cache.filled /\ read_fails
                                  THEN {"leaderboard"} ELSE {},
                       errors |-> read.errors,
                       raised |-> read.raised]
            /\ UNCHANGED <<game, call, scores>>

\* ttl=60: the cached leaderboard expires.
CacheExpires ==
    /\ lb_cache.filled
    /\ lb_cache' = NoCache
    /\ UNCHANGED <<game, last, ui, asked, call, scores, run>>

\* The session with its leaderboard: the player guesses among the letters
\* of the words, the word source may fail.
NextStore ==
    \/ NewGameWith(BOOLEAN)
    \/ GuessAmong(WordLetters)
    \/ HintButton
    \/ SubmitScore
    \/ ViewLeaderboard
    \/ CacheExpires

SpecStore == Init /\ [][NextStore]_vars

\* save_score by itself, called with any name and any score of a win.
SaveScoreCall ==
    \E name \in PlayerNames, score \in WinScores, fails \in BOOLEAN :
        LET saved == save_score(scores, lb_cache, name, score, fails)
        IN  /\ Len(scores) < MaxScores
            /\ last' = [op |-> "submit", fresh |-> FALSE, name |-> name,
                        cached |-> lb_cache.filled,
                        appended |-> Len(saved.scores) > Len(scores)]
            /\ scores' = saved.scores
            /\ lb_cache' = saved.cache
            /\ run' = [faults |-> IF fails THEN {"save"} ELSE {},
                       errors |-> saved.errors,
                       raised |-> saved.raised]
            /\ UNCHANGED <<game, ui, asked, call>>

SpecSave == Init /\ [][SaveScoreCall]_vars

(* -------------------------- the specification -------------------------- *)

Next == NewGame \/ CheckGuess \/ HintButton

Spec == Init /\ [][Next]_vars

(* ------------------------------- claims -------------------------------- *)

\* The letters of guessed_letters that do not occur in the word.
WrongGuesses(g) ==
    {i \in 1..Len(g.guessed_letters) : ~In(g.guessed_letters[i], g.word)}

\* C1: a guess made while the round is over changes no field of the game
\* record, whatever the letter.
C1_GuessWhenOverIsNoOp ==
    [][(game.game_over /\ last'.op = "check_guess") => game' = game]_vars

\* C2: whenever the round is over, a won round (every character of the word
\* guessed) has score = attempts * 10 + (0 if hint_used else 5), and a lost
\* round has score = 0.
C2_ScoreMatchesOutcome ==
    game.game_over =>
        IF AllGuessed(game)
        THEN game.score = game.attempts * 10 + (IF game.hint_used THEN 0 ELSE 5)
        ELSE game.score = 0

\* C3 as stated: in every reachable state, the initial one included, the
\* round is over exactly if attempts <= 0 or every character of the word is
\* in guessed_letters.
C3_OverIffEnded ==
    game.game_over <=> (game.attempts <= 0 \/ AllGuessed(game))

\* C3 as amended: in every reachable state of a started round (the word is
\* not empty), the round is over exactly if attempts <= 0 or every
\* character of the word is in guessed_letters.
C3_OverIffEndedInRound ==
    game.word # EmptyWord =>
        (game.game_over <=> (game.attempts <= 0 \/ AllGuessed(game)))

\* C3 witnesses: a started round that is over by exhaustion alone.
C3_LostRound ==
    /\ game.word # EmptyWord
    /\ game.game_over
    /\ game.attempts <= 0
    /\ ~AllGuessed(game)

\* C4: when the evaluation at the end of a guess finds attempts <= 0 and
\* the word complete at once, the round is a win: scored by the win formula
\* and shown as won.
C4_BothConditionsIsWin ==
    (last.op = "check_guess" /\ game.attempts <= 0 /\ AllGuessed(game)) =>
        /\ game.score = game.attempts * 10 + (IF game.hint_used THEN 0 ELSE 5)
        /\ ShownWon(game)

\* C5: after new_game the fun fact was asked with the prompt built from the
\* new round's word, and the stored fun fact is the provider's answer to
\* that prompt (its completion, or the fallback when every attempt failed).
C5_FunFactAboutNewWord ==
    last.op = "new_game" =>
        /\ asked = <<FactPrompt(game.word)>>
        /\ game.fun_fact \in {Response(FactPrompt(game.word)), Fallback}

\* C6: once hint_used is true, a further hint request in the round is
\* refused (no field changes, no hint is shown or asked for), and the
\* attempts a round has lost to hints, i.e. those not lost to a wrong
\* letter, are at most 2.
C6_OneHintPerRound ==
    /\ [](LET spent == InitialAttempts - Cardinality(WrongGuesses(game))
                         - game.attempts
          IN  spent \in 0..2)
    /\ [][(game.hint_used /\ last'.op = "hint") =>
             (game' = game /\ ui'.kind = "none" /\ asked' = <<>>)]_vars

\* C6 witness: a hint was requested in a running round whose hint was
\* already used, and nothing was shown.
C6_SecondRequestRefused ==
    /\ last.op = "hint"
    /\ ui.kind = "none"
    /\ game.hint_used
    /\ ~game.game_over

\* C7: a hint request with attempts <= 2, in a running round whose hint is
\* unused, changes no field of the game record, asks the provider nothing
\* and shows the warning.
C7_HintRefusedWhenPoor ==
    [][(/\ last'.op = "hint"
        /\ ~game.game_over
        /\ ~game.hint_used
        /\ game.attempts <= 2) =>
           (game' = game /\ asked' = <<>> /\ ui'.kind = "warning")]_vars

\* C7 witness: the warning was shown to a player with at most 2 attempts.
C7_WarningShown ==
    /\ last.op = "hint"
    /\ ui.kind = "warning"
    /\ game.attempts <= 2
    /\ ~game.hint_used
    /\ ~game.game_over

\* C8: between two new_game calls no guess and no hint request raises
\* attempts, whether the round is over or not.
C8_AttemptsNeverIncrease ==
    [][last'.op # "new_game" => game'.attempts <= game.attempts]_vars

\* C8 witness: a guess took attempts below 0, which only a guess made after
\* the round was over can do.
C8_ChargedAfterOver ==
    /\ last.op = "check_guess"
    /\ game.game_over
    /\ game.attempts < 0

\* C9: a guess of a letter that is already in guessed_letters changes
\* neither attempts nor guessed_letters.
C9_RepeatGuessChangesNothing ==
    [][(last'.op = "check_guess" /\ ~last'.fresh) =>
          /\ game'.attempts = game.attempts
          /\ game'.guessed_letters = game.guessed_letters]_vars

\* C9 witness: a wrong letter was guessed again in a running round.
C9_WrongLetterRepeated ==
    /\ last.op = "check_guess"
    /\ ~last.fresh
    /\ ~game.game_over
    /\ WrongGuesses(game) # {}

\* C10: once the round is over, every guess and every hint request leaves
\* it over and leaves the outcome shown to the player (won or lost) as it
\* was.
C10_TerminalAbsorbing ==
    [][(game.game_over /\ last'.op # "new_game") =>
          /\ game'.game_over
          /\ ShownWon(game') = ShownWon(game)]_vars

\* C11: the score is 0 until the round is over, and once the round is over
\* no guess and no hint request changes it; only new_game does.
C11_ScoreWrittenOnce ==
    /\ [](~game.game_over => game.score = 0)
    /\ [][(game.game_over /\ last'.op # "new_game") =>
             game'.score = game.score]_vars

C17_HintNeverEndsRound ==
    /\ [][last'.op = "hint" =>
             /\ game'.game_over = game.game_over
             /\ (game.game_over => game' = game)
             /\ (ui'.kind = "info" => game'.attempts >= 1)]_vars
    /\ [][(~game.game_over /\ game'.game_over) =>
             last'.op = "check_guess"]_vars

\* C17 witness: the hint was bought with 3 attempts, leaving exactly 1.
C17_HintBoughtWithThree ==
    /\ last.op = "hint"
    /\ ui.kind = "info"
    /\ game.attempts = 1
    /\ ~game.game_over

\* C19: in every reachable state attempts = 6 - (number of distinct guessed
\* letters that are not in the word) - (2 if hint_used else 0).
C19_AttemptAccounting ==
    game.attempts =
        6 - Cardinality({l \in Letters : In(l, game.guessed_letters)
                                         /\ ~In(l, game.word)})
          - (IF game.hint_used THEN 2 ELSE 0)

\* C19 witness: a round with the hint bought and wrong letters guessed, one
\* of them guessed again.
C19_HintAndWrongLetters ==
    /\ game.word # EmptyWord
    /\ game.hint_used
    /\ Cardinality(WrongGuesses(game)) >= 2
    /\ last.op = "check_guess"
    /\ ~last.fresh

\* C20: attempts stays within 0..6 in every reachable state.
C20_AttemptsInRange ==
    game.attempts \in 0..6

\* The number of the first request that succeeds, 0 if none of the first
\* three does.
FirstSuccess(c) ==
    IF \E k \in 1..3 : c.outcomes[k]
    THEN CHOOSE k \in 1..3 :
             c.outcomes[k] /\ \A j \in 1..(k - 1) : ~c.outcomes[j]
    ELSE 0

\* C13: a call of get_ai_content makes at most 3 requests, waits one
\* backoff of 2 after each failed request and so between any two
\* consecutive requests, returns the text of the first request that
\* succeeds without a further request, returns the fallback after 3 failed
\* requests, and always returns.
C13_RetryThenFallback ==
    /\ [](/\ call.requests <= 3
          /\ (call.pc = "loop" => call.slept = 2 * call.requests)
          /\ (call.pc = "done" =>
                IF FirstSuccess(call) # 0
                THEN /\ call.result = Response(call.prompt)
                     /\ call.requests = FirstSuccess(call)
                ELSE /\ call.result = Fallback
                     /\ call.requests = 3)
          /\ (call.pc = "done" =>
                call.result = get_ai_content(call.prompt, call.errors)))
    /\ <>(call.pc = "done")

\* C13 witness: the call returned the text of its third request, after two
\* failures and two backoffs.
C13_ThirdRequestSucceeded ==
    /\ call.pc = "done"
    /\ call.requests = 3
    /\ call.errors = 2
    /\ call.slept = 4
    /\ call.result = Response(call.prompt)

\* C12: a document is added to the collection only when the round is over
\* and won -- a round that was started, every character of its word
\* guessed, attempts left -- and it carries the score of that win.
C12_OnlyWinsAreSubmitted ==
    [][scores' # scores =>
          /\ game.word # EmptyWord
          /\ game.game_over
          /\ AllGuessed(game)
          /\ game.attempts > 0
          /\ game.score = game.attempts * 10 + (IF game.hint_used THEN 0 ELSE 5)
          /\ scores'[Len(scores')].score = game.score]_vars

\* C14: a leaderboard that is cached, or that a handler has just shown,
\* from a query that succeeded is a ranking of the documents the collection
\* holds now: a submission that adds a document leaves no leaderboard of
\* before it in the cache, and the read that follows it sees the document.
C14_LeaderboardNotStale ==
    /\ (lb_cache.filled /\ lb_cache.ok) => lb_cache.rows \in Rankings(scores)
    /\ (ui.kind = "board" /\ ui.ok) => ui.rows \in Rankings(scores)

\* C14 witness: a document was added while a leaderboard was cached, and
\* the leaderboard read after it shows the document.
C14_AppendedOverCachedBoard ==
    /\ last.op = "submit"
    /\ last.cached
    /\ last.appended
    /\ ui.ok
    /\ ui.rows = scores

C18_NameCutAtFifteen ==
    [][(last'.op = "submit" /\ last'.appended) =>
          LET stored == scores'[Len(scores')].name
              typed  == last'.name
          IN  /\ Len(stored) = (IF Len(typed) <= 15 THEN Len(typed) ELSE 15)
              /\ \A i \in 1..Len(stored) : stored[i] = typed[i]]_vars

\* C18 witness: a name of more than 15 characters was submitted and stored
\* with 15.
C18_LongNameStored ==
    /\ last.op = "submit"
    /\ last.appended
    /\ Len(last.name) > 15
    /\ Len(scores[Len(scores)].name) = 15

====
